---- MODULE Spec2Model ----
(***************************************************************************)
(* Icon effect pipeline of assets/icons/process_effects.py.                *)
(*                                                                         *)
(* An RGBA image is a record [width, height, px] whose px maps <<x, y>>    *)
(* (as PIL's pixel access does) to a pixel <<r, g, b, a>>.  An 'L' image   *)
(* (a mask) has the same shape with integer cells.  A numpy array is a     *)
(* record [rows, cols, a] whose a maps <<row, col>> to a cell.             *)
(*                                                                         *)
(* Two specifications share the variables:                                 *)
(*   Spec    one run of the command-line tool (main and process_image),    *)
(*   SpecFn  one call of one of the effect functions on bounded inputs.    *)
(***************************************************************************)
EXTENDS Integers, Sequences, FiniteSets, TLC

VARIABLES
    pc,               \* position of the run of the tool
    args,             \* the parsed command line (argparse namespace)
    input_img,        \* the RGBA image the input file decodes to
    raised,           \* the exception on its way to main's handler, if any
    img,              \* the image object process_image holds
    effects_applied,  \* process_image's list of applied effects
    stage_log,        \* history: what each executed stage read and produced
    saved,            \* the images written to output_path, in order
    exit_code,        \* status the process ended with (None while running)
    err_stream,       \* messages printed to sys.stderr
    call,             \* SpecFn: the function called and its arguments
    ret               \* SpecFn: what the call returned (NotCalled before)

\* the variables of a run of the tool
run_vars == <<pc, args, input_img, raised, img, effects_applied, stage_log,
              saved, exit_code, err_stream>>

vars == <<pc, args, input_img, raised, img, effects_applied, stage_log, saved,
          exit_code, err_stream, call, ret>>

\* An optional value (None or a value) is a sequence of length 0 or 1.
None == <<>>
Some(v) == <<v>>

\* What a call came to: not made yet, a value returned, or a ValueError raised.
NotCalled == [status |-> "NotCalled"]
Return(v) == [status |-> "returned", value |-> v]
ValueError == [status |-> "ValueError"]

(***************************************************************************)
(* Bounds of the model.                                                    *)
(***************************************************************************)
MaxCells == 4         \* RGBA grids given to the pixel functions: w*h <= MaxCells
MaxMaskCells == 9     \* masks given to the dilation: w*h <= MaxMaskCells
MaxRadius == 3        \* largest kernel / dilation radius tried
MaxSide == 3          \* input files of the tool: width, height <= MaxSide
MaxOrderCells == 3    \* grids whose cells are visited in every order

Dims(n) == {d \in (1..n) \X (1..n) : d[1] * d[2] <= n}
Cells(w, h) == (0..(w - 1)) \X (0..(h - 1))

(***************************************************************************)
(* Pixels the inputs are drawn from: fully transparent, the two pixels of  *)
(* the docstring's examples, one whose alpha equals the threshold 128, and *)
(* an opaque coloured one.  The thresholds include values outside 0..255,  *)
(* which argparse's type=int (lines 350-352) lets through.                 *)
(***************************************************************************)
Transparent == <<0, 0, 0, 0>>
Palette == {Transparent, <<100, 150, 200, 64>>, <<100, 150, 200, 128>>,
            <<100, 150, 200, 200>>, <<100, 150, 200, 255>>}
Thresholds == {-1, 0, 64, 128, 129, 255, 256, 300}

ImagesOver(dims, pixels) ==
    UNION {{[width |-> d[1], height |-> d[2], px |-> f] :
                f \in [Cells(d[1], d[2]) -> pixels]} : d \in dims}

(***************************************************************************)
(* remove_partial_transparency                                             *)
(***************************************************************************)
\* a plausible slip: '>' for '>=' in the threshold test
ConvertsPixel_strict(a, threshold) == a > threshold /\ a > 0

\* the test of line 55
ConvertsPixel(a, threshold) == a >= threshold /\ a > 0

\* a plausible slip: the tuple written in ARGB order
OpaqueGray_argb(a) == <<255, a, a, a>>

\* the tuple stored at line 57
OpaqueGray(a) == <<a, a, a, 255>>

\* a plausible slip: the alpha tested is the one of the pixel to the left
VisitPixel_left(pixels, c, threshold) ==
    LET a == pixels[c][4]
        left == IF c[1] > 0 THEN <<c[1] - 1, c[2]>> ELSE c
    IN IF ConvertsPixel(pixels[left][4], threshold)
          THEN [pixels EXCEPT ![c] = OpaqueGray(a)]
          ELSE pixels

\* lines 54-57: the body of the loops, on the pixel at c = (x, y)
VisitPixel(pixels, c, threshold) ==
    LET a == pixels[c][4]
    IN IF ConvertsPixel(a, threshold)
          THEN [pixels EXCEPT ![c] = OpaqueGray(a)]
          ELSE pixels

\* The nested loops of lines 52-57 over the pixel access object, in place:
\* i counts the cells visited so far, row by row.
RECURSIVE rpt_loop(_, _, _, _, _)
rpt_loop(pixels, width, height, threshold, i) ==
    IF i >= width * height THEN pixels
    ELSE rpt_loop(VisitPixel(pixels, <<i % width, i \div width>>, threshold),
                  width, height, threshold, i + 1)

\* lines 45-46: an image that is RGBA already, as every grid of the model
\* is, is not converted, so img stays the object the caller passed
KeepsCallersObject == TRUE

\* The image is RGBA already (line 45 does nothing); the object returned is
\* the one passed in, with its pixels rewritten.
remove_partial_transparency(image, threshold) ==
    [image EXCEPT !.px = rpt_loop(image.px, image.width, image.height,
                                  threshold, 0)]

(***************************************************************************)
(* create_circular_kernel                                                  *)
(***************************************************************************)
\* floor of the square root: math.sqrt(n) lies in [Isqrt(n), Isqrt(n) + 1)
\* and equals Isqrt(n) exactly when n is a perfect square
Isqrt(n) == CHOOSE s \in 0..n : s * s <= n /\ (s + 1) * (s + 1) > n

\* a plausible slip: '<' for '<=' in the circle test
WithinCircle_strict(dx, dy, radius) ==
    LET n == dx * dx + dy * dy
    IN Isqrt(n) < radius

\* lines 114-115: dist = math.sqrt(dx**2 + dy**2); dist <= radius
WithinCircle(dx, dy, radius) ==
    LET n == dx * dx + dy * dy
        s == Isqrt(n)
    IN s < radius \/ (s = radius /\ s * s = n)

\* a plausible slip: the side computed without the centre cell
KernelSize_even(radius) == radius * 2

\* line 107
KernelSize(radius) == radius * 2 + 1

\* a plausible slip: the centre taken one cell off
KernelCenter_off(radius) == radius + 1

\* line 109
KernelCenter(radius) == radius

\* np.zeros refuses a negative dimension; otherwise the loops of lines
\* 111-116 set kernel[y, x] for the cells within the circle.
create_circular_kernel(radius) ==
    LET size == KernelSize(radius)
        center == KernelCenter(radius)
    IN IF size < 0 THEN ValueError
       ELSE Return(
            [rows |-> size, cols |-> size,
             a |-> [c \in (0..(size - 1)) \X (0..(size - 1)) |->
                      IF WithinCircle(c[2] - center, c[1] - center, radius)
                         THEN 1 ELSE 0]])

(***************************************************************************)
(* dilate_with_circular_kernel                                             *)
(***************************************************************************)
\* np.array(mask): row y, column x of the array is the image's cell (x, y)
ToArray(image) ==
    [rows |-> image.height, cols |-> image.width,
     a |-> [c \in (0..(image.height - 1)) \X (0..(image.width - 1)) |->
              image.px[<<c[2], c[1]>>]]]

\* Image.fromarray(array, mode='L')
FromArray(array) ==
    [width |-> array.cols, height |-> array.rows,
     px |-> [c \in Cells(array.cols, array.rows) |-> array.a[<<c[2], c[1]>>]]]

\* a plausible slip: np.pad with mode='wrap'
Pad_wrap(array, pad) ==
    [rows |-> array.rows + 2 * pad, cols |-> array.cols + 2 * pad,
     a |-> [c \in (0..(array.rows + 2 * pad - 1)) \X
                  (0..(array.cols + 2 * pad - 1)) |->
              array.a[<<(c[1] - pad) % array.rows, (c[2] - pad) % array.cols>>]]]

\* line 138: np.pad(mask_array, pad, mode='constant', constant_values=0)
Pad(array, pad) ==
    [rows |-> array.rows + 2 * pad, cols |-> array.cols + 2 * pad,
     a |-> [c \in (0..(array.rows + 2 * pad - 1)) \X
                  (0..(array.cols + 2 * pad - 1)) |->
              IF /\ c[1] - pad \in 0..(array.rows - 1)
                 /\ c[2] - pad \in 0..(array.cols - 1)
                 THEN array.a[<<c[1] - pad, c[2] - pad>>]
                 ELSE 0]]

\* lines 149-151: the region of the padded array under the kernel placed at
\* (y, x) holds a nonzero cell where the kernel is nonzero
KernelHits(padded, kernel, y, x) ==
    \E i \in 0..(kernel.rows - 1), j \in 0..(kernel.cols - 1) :
        padded.a[<<y + i, x + j>>] > 0 /\ kernel.a[<<i, j>>] > 0

\* lines 149-152: the body of the loops, on the output cell (y, x)
DilateAt(output, padded, kernel, y, x) ==
    IF KernelHits(padded, kernel, y, x)
       THEN [output EXCEPT ![<<y, x>>] = 255]
       ELSE output

\* a plausible slip: only radius 0 returns early
NoDilation_zero(radius) == radius = 0

\* the guard of line 126
NoDilation(radius) == radius <= 0

dilate_with_circular_kernel(mask, radius) ==
    IF NoDilation(radius) THEN Return(mask)
    ELSE LET mask_array == ToArray(mask)
             kernel == create_circular_kernel(radius)
         IN IF kernel.status = "ValueError" THEN ValueError
            ELSE LET padded == Pad(mask_array, radius)
                     output ==
                         [rows |-> mask_array.rows, cols |-> mask_array.cols,
                          a |-> [c \in DOMAIN mask_array.a |->
                                   IF KernelHits(padded, kernel.value, c[1], c[2])
                                      THEN 255 ELSE 0]]
                 IN Return(FromArray(output))

(***************************************************************************)
(* parse_outline_arg.  A Python string is a sequence of one-character      *)
(* strings.                                                                *)
(***************************************************************************)
DigitChars == <<"0", "1", "2", "3", "4", "5", "6", "7", "8", "9">>
HexLower == DigitChars \o <<"a", "b", "c", "d", "e", "f">>
HexUpper == DigitChars \o <<"A", "B", "C", "D", "E", "F">>
Range(seq) == {seq[i] : i \in 1..Len(seq)}
IsDigit(c) == c \in Range(DigitChars)
IsHexDigit(c) == c \in Range(HexLower) \cup Range(HexUpper)
IsSpace(c) == c = " "
DigitVal(c) == (CHOOSE i \in 1..10 : DigitChars[i] = c) - 1
HexVal(c) == (CHOOSE i \in 1..16 : HexLower[i] = c \/ HexUpper[i] = c) - 1

\* the index after the longest run of characters of `set` that starts at i
Span(s, i, set) ==
    CHOOSE j \in i..(Len(s) + 1) :
        /\ \A k \in i..(j - 1) : s[k] \in set
        /\ j = Len(s) + 1 \/ s[j] \notin set

\* str.strip(): leading and trailing whitespace removed
strip(s) ==
    LET first == Span(s, 1, {" "})
        last == IF first > Len(s) THEN 0
                ELSE CHOOSE j \in first..Len(s) :
                        /\ ~IsSpace(s[j])
                        /\ \A k \in (j + 1)..Len(s) : IsSpace(s[k])
    IN IF first > Len(s) THEN <<>> ELSE SubSeq(s, first, last)

StartsWith(s, prefix) ==
    Len(s) >= Len(prefix) /\ SubSeq(s, 1, Len(prefix)) = prefix

\* int(digits): the decimal value of a run of digits
RECURSIVE DecimalValue(_)
DecimalValue(digits) ==
    IF digits = <<>> THEN 0
    ELSE 10 * DecimalValue(SubSeq(digits, 1, Len(digits) - 1))
         + DigitVal(digits[Len(digits)])

\* a plausible slip: the two hex digits taken in the wrong order
HexPair_swapped(c1, c2) ==
    IF IsHexDigit(c1) /\ IsHexDigit(c2) THEN Return(16 * HexVal(c2) + HexVal(c1))
    ELSE ValueError

\* int(two_chars, 16): Python's int() takes two hex digits, and also one hex
\* digit after a sign or beside a blank; anything else raises ValueError
HexPair(c1, c2) ==
    IF IsHexDigit(c1) /\ IsHexDigit(c2) THEN Return(16 * HexVal(c1) + HexVal(c2))
    ELSE IF c1 \in {"+", " "} /\ IsHexDigit(c2) THEN Return(HexVal(c2))
    ELSE IF c1 = "-" /\ IsHexDigit(c2) THEN Return(0 - HexVal(c2))
    ELSE IF IsHexDigit(c1) /\ c2 = " " THEN Return(HexVal(c1))
    ELSE ValueError

\* lines 79-87: the '#' branch
ParseHexColor(color_str) ==
    LET stripped == SubSeq(color_str, Span(color_str, 1, {"#"}), Len(color_str))
        hex_color == IF Len(stripped) = 3
                        THEN <<stripped[1], stripped[1], stripped[2],
                               stripped[2], stripped[3], stripped[3]>>
                        ELSE stripped
    IN IF Len(hex_color) # 6 THEN ValueError
       ELSE LET r == HexPair(hex_color[1], hex_color[2])
                g == HexPair(hex_color[3], hex_color[4])
                b == HexPair(hex_color[5], hex_color[6])
            IN IF r.status = "ValueError" THEN ValueError
               ELSE IF g.status = "ValueError" THEN ValueError
               ELSE IF b.status = "ValueError" THEN ValueError
               ELSE Return(<<r.value, g.value, b.value, 255>>)

\* One number of the rgb pattern starting at index i: (\d+) and what follows
\* it.  [ok, value, next]: next is the index after the digits.
Number(s, i) ==
    LET j == IF i > Len(s) + 1 THEN i ELSE Span(s, i, Range(DigitChars))
    IN [ok |-> j > i, value |-> DecimalValue(SubSeq(s, i, j - 1)), next |-> j]

CharAt(s, i) == IF i \in 1..Len(s) THEN s[i] ELSE ""

\* ",\s*" at index i: the index after it, or 0 when there is no comma
CommaSpaces(s, i) ==
    IF CharAt(s, i) = "," THEN Span(s, i + 1, {" "}) ELSE 0

\* lines 90-95: re.match(r'rgba?\((\d+),\s*(\d+),\s*(\d+)(?:,\s*(\d+))?\)')
\* matches a prefix of color_str; nothing checks what follows the ')' nor
\* the size of the numbers
ParseRgbColor(color_str) ==
    LET open == IF CharAt(color_str, 4) = "a" THEN 5 ELSE 4
        n1 == Number(color_str, open + 1)
        c1 == CommaSpaces(color_str, n1.next)
        n2 == Number(color_str, c1)
        c2 == CommaSpaces(color_str, n2.next)
        n3 == Number(color_str, c2)
        c3 == CommaSpaces(color_str, n3.next)
        n4 == Number(color_str, c3)
        four == c3 > 0 /\ n4.ok /\ CharAt(color_str, n4.next) = ")"
        three == CharAt(color_str, n3.next) = ")"
    IN IF /\ CharAt(color_str, open) = "("
          /\ n1.ok /\ c1 > 0 /\ n2.ok /\ c2 > 0 /\ n3.ok
          /\ (four \/ three)
          THEN Return(<<n1.value, n2.value, n3.value,
                        IF four THEN n4.value ELSE 255>>)
          ELSE ValueError

\* lines 69-99.  The pattern r'(\d+)(?:px)?\s+(.+)' on the stripped string:
\* digits, an optional "px", at least one blank, then the rest as the color.
parse_outline_arg(outline_str) ==
    LET s == strip(outline_str)
        d == Span(s, 1, Range(DigitChars))
        p == IF CharAt(s, d) = "p" /\ CharAt(s, d + 1) = "x" THEN d + 2 ELSE d
        w == IF p > Len(s) THEN p ELSE Span(s, p, {" "})
        matched == d > 1 /\ w > p /\ w <= Len(s)
        width == DecimalValue(SubSeq(s, 1, d - 1))
        color_str == strip(SubSeq(s, w, Len(s)))
        color == IF StartsWith(color_str, <<"#">>) THEN ParseHexColor(color_str)
                 ELSE IF StartsWith(color_str, <<"r", "g", "b">>)
                         THEN ParseRgbColor(color_str)
                 ELSE ValueError
    IN IF ~matched THEN ValueError
       ELSE IF color.status = "ValueError" THEN ValueError
       ELSE Return([width_px |-> width, color |-> color.value])

(***************************************************************************)
(* add_outline                                                             *)
(***************************************************************************)
Clip8(v) == IF v < 0 THEN 0 ELSE IF v > 255 THEN 255 ELSE v

\* Image.new('RGBA', size, color): a solid image; channels are stored 8-bit
SolidImage(width, height, color) ==
    [width |-> width, height |-> height,
     px |-> [c \in Cells(width, height) |->
               <<Clip8(color[1]), Clip8(color[2]), Clip8(color[3]),
                 Clip8(color[4])>>]]

\* a plausible slip: only fully opaque pixels taken into the mask
BinaryMask_opaque(image) ==
    [width |-> image.width, height |-> image.height,
     px |-> [c \in Cells(image.width, image.height) |->
               IF image.px[c][4] >= 255 THEN 255 ELSE 0]]

\* line 176: alpha.point(lambda x: 255 if x > 0 else 0) on the alpha band
BinaryMask(image) ==
    [width |-> image.width, height |-> image.height,
     px |-> [c \in Cells(image.width, image.height) |->
               IF image.px[c][4] > 0 THEN 255 ELSE 0]]

\* a plausible slip: the original mask not taken out of the dilated one
OutlineMask_whole(dilated, binary_mask) ==
    LET dilated_array == ToArray(dilated)
    IN FromArray([rows |-> dilated_array.rows, cols |-> dilated_array.cols,
                  a |-> [c \in DOMAIN dilated_array.a |->
                           IF dilated_array.a[c] > 0 THEN 255 ELSE 0]])

\* line 186: np.where((dilated_array > 0) & (binary_array == 0), 255, 0)
OutlineMask(dilated, binary_mask) ==
    LET dilated_array == ToArray(dilated)
        binary_array == ToArray(binary_mask)
    IN FromArray([rows |-> dilated_array.rows, cols |-> dilated_array.cols,
                  a |-> [c \in DOMAIN dilated_array.a |->
                           IF dilated_array.a[c] > 0 /\ binary_array.a[c] = 0
                              THEN 255 ELSE 0]])

\* a plausible slip: the mask read the other way round
Paste_inverted(layer, color_img, mask) ==
    [layer EXCEPT !.px = [c \in DOMAIN layer.px |->
                            IF mask.px[c] = 0 THEN color_img.px[c]
                            ELSE layer.px[c]]]

\* line 192: layer.paste(color_img, mask=mask) with a mask of 0 and 255
Paste(layer, color_img, mask) ==
    [layer EXCEPT !.px = [c \in DOMAIN layer.px |->
                            IF mask.px[c] = 255 THEN color_img.px[c]
                            ELSE layer.px[c]]]

ShiftForDiv255(v) == ((v \div 256) + v) \div 256

\* Image.alpha_composite on one pixel: src over dst in the library's
\* fixed-point arithmetic (7 extra bits of precision); a fully transparent
\* src pixel gives dst
CompositePixel(dst, src) ==
    IF src[4] = 0 THEN dst
    ELSE LET blend == dst[4] * (255 - src[4])
             outa255 == src[4] * 255 + blend
             coef1 == (src[4] * 255 * 255 * 128) \div outa255
             coef2 == 255 * 128 - coef1
             chan(i) == ShiftForDiv255(src[i] * coef1 + dst[i] * coef2
                                       + 128 * 128) \div 128
         IN <<chan(1), chan(2), chan(3), ShiftForDiv255(outa255 + 128)>>

\* lines 196-197: Image.alpha_composite(dst, src)
AlphaComposite(dst, src) ==
    [dst EXCEPT !.px = [c \in DOMAIN dst.px |->
                          CompositePixel(dst.px[c], src.px[c])]]

\* lines 169-199
add_outline(image, width_px, color) ==
    LET binary_mask == BinaryMask(image)
        dilated == dilate_with_circular_kernel(binary_mask, width_px)
    IN IF dilated.status = "ValueError" THEN ValueError
       ELSE LET outline_mask == OutlineMask(dilated.value, binary_mask)
                blank == SolidImage(image.width, image.height, Transparent)
                outline_layer ==
                    Paste(blank,
                          SolidImage(image.width, image.height, color),
                          outline_mask)
                result == AlphaComposite(blank, outline_layer)
            IN Return(AlphaComposite(result, image))

(***************************************************************************)
(* add_padding                                                             *)
(***************************************************************************)
\* The pixels a resampled image is made of.  Image.resize with the LANCZOS
\* filter is the imaging library's: the model lets every pixel of the
\* resized content be any of these.
ResampledPixels == {Transparent, <<100, 150, 200, 200>>, <<255, 255, 255, 255>>}

\* line 223: img.resize((w, h), Image.LANCZOS): the images it may return
Resized(image, w, h) == ImagesOver({<<w, h>>}, ResampledPixels)

\* a plausible slip: the content pasted at the canvas's corner
PasteAt_corner(width, height, resized, padding) ==
    [width |-> width, height |-> height,
     px |-> [c \in Cells(width, height) |->
               IF c[1] \in 0..(resized.width - 1) /\ c[2] \in 0..(resized.height - 1)
                  THEN resized.px[c]
                  ELSE Transparent]]

\* a plausible slip: the canvas made larger by the padding on every side
PasteAt_grown(width, height, resized, padding) ==
    [width |-> width + 2 * padding, height |-> height + 2 * padding,
     px |-> [c \in Cells(width + 2 * padding, height + 2 * padding) |->
               IF /\ c[1] - padding \in 0..(resized.width - 1)
                  /\ c[2] - padding \in 0..(resized.height - 1)
                  THEN resized.px[<<c[1] - padding, c[2] - padding>>]
                  ELSE Transparent]]

\* canvas of the original size
PasteAt(width, height, resized, padding) ==
    [width |-> width, height |-> height,
     px |-> [c \in Cells(width, height) |->
               IF /\ c[1] - padding \in 0..(resized.width - 1)
                  /\ c[2] - padding \in 0..(resized.height - 1)
                  THEN resized.px[<<c[1] - padding, c[2] - padding>>]
                  ELSE Transparent]]

\* a plausible slip: '<' for '<=' in the size test
PaddingTooLarge_strict(image, padding) ==
    image.width - padding * 2 < 0 \/ image.height - padding * 2 < 0

\* the test of line 219
PaddingTooLarge(image, padding) ==
    image.width - padding * 2 <= 0 \/ image.height - padding * 2 <= 0

\* lines 207-231: everything add_padding may come to
add_padding(image, padding) ==
    IF padding <= 0 THEN {Return(image)}
    ELSE IF PaddingTooLarge(image, padding) THEN {ValueError}
    ELSE {Return(PasteAt(image.width, image.height, resized, padding)) :
            resized \in Resized(image, image.width - padding * 2,
                                image.height - padding * 2)}

(***************************************************************************)
(* adjust_brightness                                                       *)
(***************************************************************************)
RECURSIVE BitLength(_)
BitLength(v) == IF v = 0 THEN 0 ELSE 1 + BitLength(v \div 2)

\* Rounding to nearest, ties to even, of q + rem/unit (0 <= rem < unit)
RoundHalfEven(q, rem, unit) ==
    IF 2 * rem > unit \/ (2 * rem = unit /\ q % 2 = 1) THEN q + 1 ELSE q

\* lines 258-263: the factor 1 + brightness/100, for percent = 100 +
\* brightness > 0, with the single-precision number mant / 2^exp the blend
\* receives for it.  Long division of percent by 100, one binary digit a
\* step, until q holds 24 significant bits.
RECURSIVE FactorDigits(_, _, _, _)
FactorDigits(percent, q, rem, exp) ==
    IF q >= 8388608
       THEN [percent |-> percent, mant |-> RoundHalfEven(q, rem, 100),
             exp |-> exp]
    ELSE FactorDigits(percent, 2 * q + (IF 2 * rem >= 100 THEN 1 ELSE 0),
                      (2 * rem) % 100, exp + 1)

Factor(brightness) ==
    IF 100 + brightness <= 0
       THEN [percent |-> 100 + brightness, mant |-> 0, exp |-> 0]
    ELSE FactorDigits(100 + brightness, (100 + brightness) \div 100,
                      (100 + brightness) % 100, 0)

\* The single-precision product c * factor cut to an integer.  The exact
\* product c * mant is held in two limbs of 12 bits, rounded to 24
\* significant bits (dropping its low 'drop' bits), then cut at the binary
\* point.
TimesFactor(c, factor) ==
    LET low == c * (factor.mant % 4096)
        hi == c * (factor.mant \div 4096) + low \div 4096
        lo == low % 4096
        bits == BitLength(hi)
        drop == IF bits > 12 THEN bits - 12 ELSE 0
        unit == 2^drop
        product == RoundHalfEven(hi * 2^(12 - drop) + lo \div unit,
                                 lo % unit, unit)
    IN product \div 2^(factor.exp - drop)

\* a plausible reading: the product rounded to the nearest integer
EnhanceChannel_rounded(c, factor) ==
    IF factor.percent <= 0 THEN 0
    ELSE Clip8((c * factor.percent + 50) \div 100)

\* lines 260-266: ImageEnhance.Brightness(rgb).enhance(factor) blends black
\* with the image: a factor of 0 or less gives black, a factor of 1 the
\* image, and any other the channel times the factor in single precision,
\* cut to an integer and kept within 0..255
EnhanceChannel(c, factor) ==
    IF factor.percent <= 0 THEN 0
    ELSE IF factor.percent = 100 THEN c
    ELSE Clip8(TimesFactor(c, factor))

\* a plausible slip: the early return of lines 247-248 left out
BrightnessUnchanged_never(brightness) == FALSE

\* the test of line 247
BrightnessUnchanged(brightness) == brightness = 0

\* a plausible slip: line 245 left out
ClampBrightness_none(brightness) == brightness

\* line 245
ClampBrightness(brightness) ==
    IF brightness < -100 THEN -100
    ELSE IF brightness > 100 THEN 100 ELSE brightness

\* a plausible slip: the enhanced bands merged without the saved alpha
\* (line 269), the alpha enhanced like a colour band
KeptAlpha_enhanced(a, factor) == EnhanceChannel(a, factor)

\* lines 252 and 269: the alpha band is split off and merged back as it was
KeptAlpha(a, factor) == a

\* lines 241-272
adjust_brightness(image, brightness) ==
    LET b == ClampBrightness(brightness)
        factor == Factor(b)
    IN IF BrightnessUnchanged(b) THEN image
       ELSE [image EXCEPT !.px = [c \in DOMAIN image.px |->
                <<EnhanceChannel(image.px[c][1], factor),
                  EnhanceChannel(image.px[c][2], factor),
                  EnhanceChannel(image.px[c][3], factor),
                  KeptAlpha(image.px[c][4], factor)>>]]

(***************************************************************************)
(* SpecFn: one call of one effect function.  Init draws the function and   *)
(* its arguments; the action of that function applies it.                  *)
(***************************************************************************)
NormImages == ImagesOver(Dims(MaxCells), Palette)
Masks == ImagesOver(Dims(MaxMaskCells), {0, 255})
Radii == (-1)..MaxRadius

\* no image: before Image.open, or an argument a function does not take
NoImage == [width |-> 0, height |-> 0, px |-> [c \in Cells(0, 0) |-> Transparent]]

NoMask == [width |-> 0, height |-> 0, px |-> [c \in Cells(0, 0) |-> 0]]

\* input files: for every size up to MaxSide x MaxSide, the images that
\* cycle through PatternPixels from each starting pixel, and a single
\* opaque pixel in the middle of a transparent image
PatternPixels ==
    <<Transparent, <<100, 150, 200, 200>>, <<255, 255, 255, 255>>,
      <<100, 150, 200, 64>>>>

PatternImage(w, h, k) ==
    [width |-> w, height |-> h,
     px |-> [c \in Cells(w, h) |->
               PatternPixels[((c[1] + 2 * c[2] + k) % Len(PatternPixels)) + 1]]]

DotImage(w, h) ==
    [width |-> w, height |-> h,
     px |-> [c \in Cells(w, h) |->
               IF c = <<w \div 2, h \div 2>> THEN <<255, 255, 255, 255>>
               ELSE Transparent]]

InputImages ==
    {PatternImage(w, h, k) :
        w \in 1..MaxSide, h \in 1..MaxSide, k \in 1..Len(PatternPixels)}
    \cup {DotImage(w, h) : w \in 1..MaxSide, h \in 1..MaxSide}

\* a colour argument a function does not take
NoColor == Transparent

\* add_outline: grids of fully transparent pixels with and without colour,
\* a translucent and an opaque one, and the input files; an opaque, a
\* translucent and a fully transparent outline colour
OutlinePixels == {Transparent, <<100, 150, 200, 0>>, <<100, 150, 200, 64>>,
                  <<255, 255, 255, 255>>}
OutlineImages == ImagesOver(Dims(MaxCells), OutlinePixels) \cup InputImages
OutlineColors == {<<0, 0, 0, 255>>, <<255, 0, 0, 128>>, <<0, 0, 255, 0>>}
OutlineWidths == 0..MaxRadius

\* adjust_brightness: one-pixel grids that carry every channel value and
\* every alpha, and two of the input files; every brightness of the
\* documented range and some outside it
BrightnessImages ==
    {[width |-> 1, height |-> 1,
      px |-> [c \in Cells(1, 1) |-> <<v, 255 - v, (v + 128) % 256, 255 - v>>]] :
        v \in 0..255}
    \cup {PatternImage(MaxSide, MaxSide, 1), DotImage(MaxSide, MaxSide)}
Brightnesses == ((-100)..100) \cup {-150, -101, 101, 150}

\* add_padding: the input files and every padding up to their largest side
Paddings == 0..MaxSide

\* a call: the function and its arguments, absent ones filled in
Call(fn, image, mask, n, color) ==
    [fn |-> fn, image |-> image, mask |-> mask, n |-> n, color |-> color,
     text |-> <<>>, wellformed |-> FALSE]

\* a call of parse_outline_arg on a string.  For a string written from a
\* width and a colour (wellformed), n and color hold that width and colour.
ParseCall(text, wellformed, n, color) ==
    [Call("parse_outline_arg", NoImage, NoMask, n, color)
        EXCEPT !.text = text, !.wellformed = wellformed]

\* str(n) for n >= 0
RECURSIVE Decimal(_)
Decimal(n) ==
    IF n < 10 THEN <<DigitChars[n + 1]>>
    ELSE Decimal(n \div 10) \o <<DigitChars[(n % 10) + 1]>>

\* a channel as two hex digits of the given alphabet
HexByte(v, digits) == <<digits[(v \div 16) + 1], digits[(v % 16) + 1]>>

\* the outline strings of the documented forms (lines 65 and 68): a width,
\* "px" or not, one or two blanks, and a colour written in one of the forms
\*   hex6: #rrggbb (lower or upper case)     hex3: #rgb, for channels 17*k
\*   rgb:  rgb(r,g,b), a blank after the commas or not    rgba: rgba(r,g,b,a)
ColorText(form, color) ==
    CASE form = "hex6" ->
           <<"#">> \o HexByte(color[1], HexLower) \o HexByte(color[2], HexLower)
                  \o HexByte(color[3], HexLower)
      [] form = "HEX6" ->
           <<"#">> \o HexByte(color[1], HexUpper) \o HexByte(color[2], HexUpper)
                  \o HexByte(color[3], HexUpper)
      [] form = "hex3" ->
           <<"#", HexLower[(color[1] \div 17) + 1], HexUpper[(color[2] \div 17) + 1],
             HexLower[(color[3] \div 17) + 1]>>
      [] form = "rgb" ->
           <<"r", "g", "b", "(">> \o Decimal(color[1]) \o <<",">>
             \o Decimal(color[2]) \o <<",">> \o Decimal(color[3]) \o <<")">>
      [] form = "rgb " ->
           <<"r", "g", "b", "(">> \o Decimal(color[1]) \o <<",", " ">>
             \o Decimal(color[2]) \o <<",", " ">> \o Decimal(color[3]) \o <<")">>
      [] form = "rgba" ->
           <<"r", "g", "b", "a", "(">> \o Decimal(color[1]) \o <<",">>
             \o Decimal(color[2]) \o <<",">> \o Decimal(color[3]) \o <<",">>
             \o Decimal(color[4]) \o <<")">>

OutlineText(width, px, blanks, form, color) ==
    Decimal(width) \o px \o blanks \o ColorText(form, color)

WidthValues == {0, 1, 14, 120}
HexChannels == {0, 10, 189, 255}
ShortHexChannels == {0, 17, 170, 204, 255}
DecimalChannels == {0, 7, 189, 255}
AlphaValues == {0, 128, 255}

\* form and colour of the well-formed strings
WellFormedColors ==
    ({"hex6", "HEX6"} \X (HexChannels \X HexChannels \X HexChannels \X {255}))
    \cup ({"hex3"} \X (ShortHexChannels \X ShortHexChannels
                        \X ShortHexChannels \X {255}))
    \cup ({"rgb", "rgb "} \X (DecimalChannels \X DecimalChannels
                               \X DecimalChannels \X {255}))
    \cup ({"rgba"} \X (DecimalChannels \X DecimalChannels
                        \X DecimalChannels \X AlphaValues))

\* strings outside the documented forms: no width, a negative width, no
\* colour, no blank, an unknown colour; hex colours of the wrong length, with
\* a second '#', with letters or signs that are no hex digits; rgb colours
\* with two numbers, without ')', with text after ')', with a channel or an
\* alpha above 255
MalformedTexts ==
    {<<>>,
     <<"a", "b", "c">>,
     <<"#", "f", "f", "f">>,
     <<"-", "1", " ", "#", "f", "f", "f">>,
     <<"1", "p", "x">>,
     <<"1", "p", "x", "#", "f", "f", "f">>,
     <<"p", "x", " ", "#", "f", "f", "f">>,
     <<"1", " ", "p", "x", " ", "#", "f", "f", "f">>,
     <<"1", "p", "x", " ", "r", "e", "d">>,
     <<"1", "p", "x", " ", "#", "1", "2", "3", "4", "5">>,
     <<"1", "p", "x", " ", "#", "1", "2", "3", "4", "5", "6", "7">>,
     <<"1", "p", "x", " ", "#", "#", "f", "f", "f">>,
     <<"1", "p", "x", " ", "#", "g", "g", "g">>,
     <<"1", "p", "x", " ", "#", "+", "f", "+", "f", "+", "f">>,
     <<"1", "p", "x", " ", "r", "g", "b", "(", "1", ",", "2", ")">>,
     <<"1", "p", "x", " ", "r", "g", "b", "(", "1", ",", "2", ",", "3">>,
     <<"1", "p", "x", " ", "r", "g", "b", "(", "1", ",", "2", ",", "3", ")", "x">>,
     <<"1", "p", "x", " ", "r", "g", "b", "(", "3", "0", "0", ",", "0", ",", "0", ")">>,
     <<"1", "p", "x", " ", "r", "g", "b", "a", "(", "0", ",", "0", ",", "0", ",", "2", "5", "6", ")">>}

NoArgs ==
    [remove_partial_transparency |-> FALSE, opacity_threshold |-> 0,
     outline |-> None, brightness |-> None, padding |-> None]

Idle ==
    /\ pc = "idle"
    /\ args = NoArgs
    /\ input_img = NoImage
    /\ raised = None
    /\ img = NoImage
    /\ effects_applied = <<>>
    /\ stage_log = <<>>
    /\ saved = <<>>
    /\ exit_code = None
    /\ err_stream = <<>>

InitFn ==
    /\ Idle
    /\ \/ \E g \in NormImages, t \in Thresholds :
             call = Call("remove_partial_transparency", g, NoMask, t, NoColor)
       \/ \E r \in 0..MaxRadius :
             call = Call("create_circular_kernel", NoImage, NoMask, r, NoColor)
       \/ \E m \in Masks, r \in Radii :
             call = Call("dilate_with_circular_kernel", NoImage, m, r, NoColor)
       \/ \E g \in OutlineImages, w \in OutlineWidths, k \in OutlineColors :
             call = Call("add_outline", g, NoMask, w, k)
       \/ \E g \in BrightnessImages, d \in Brightnesses :
             call = Call("adjust_brightness", g, NoMask, d, NoColor)
       \/ \E g \in InputImages, q \in Paddings :
             call = Call("add_padding", g, NoMask, q, NoColor)
       \/ \E w \in WidthValues, px \in {<<>>, <<"p", "x">>},
             blanks \in {<<" ">>, <<" ", " ">>}, fc \in WellFormedColors :
             call = ParseCall(OutlineText(w, px, blanks, fc[1], fc[2]), TRUE,
                              w, fc[2])
       \/ \E t \in MalformedTexts : call = ParseCall(t, FALSE, 0, NoColor)
    /\ ret = NotCalled

\* same_object: whether the image returned is the very object passed in
\* (lines 49 and 60: the pixels of img are written through img.load(), and
\* img is returned); argument: the caller's image object after the call
Call_remove_partial_transparency ==
    /\ call.fn = "remove_partial_transparency"
    /\ ret.status = "NotCalled"
    /\ LET out == remove_partial_transparency(call.image, call.n)
       IN ret' = [status |-> "returned", value |-> out,
                  same_object |-> KeepsCallersObject,
                  argument |-> IF KeepsCallersObject THEN out ELSE call.image]
    /\ UNCHANGED <<run_vars, call>>

Call_create_circular_kernel ==
    /\ call.fn = "create_circular_kernel"
    /\ ret.status = "NotCalled"
    /\ ret' = create_circular_kernel(call.n)
    /\ UNCHANGED <<run_vars, call>>

Call_dilate_with_circular_kernel ==
    /\ call.fn = "dilate_with_circular_kernel"
    /\ ret.status = "NotCalled"
    /\ ret' = dilate_with_circular_kernel(call.mask, call.n)
    /\ UNCHANGED <<run_vars, call>>

Call_add_outline ==
    /\ call.fn = "add_outline"
    /\ ret.status = "NotCalled"
    /\ ret' = add_outline(call.image, call.n, call.color)
    /\ UNCHANGED <<run_vars, call>>

\* same_object: whether the image returned is the very object passed in
\* (the 'return img' of line 248)
Call_adjust_brightness ==
    /\ call.fn = "adjust_brightness"
    /\ ret.status = "NotCalled"
    /\ ret' = [status |-> "returned",
               value |-> adjust_brightness(call.image, call.n),
               same_object |-> BrightnessUnchanged(ClampBrightness(call.n))]
    /\ UNCHANGED <<run_vars, call>>

Call_add_padding ==
    /\ call.fn = "add_padding"
    /\ ret.status = "NotCalled"
    /\ ret' \in add_padding(call.image, call.n)
    /\ UNCHANGED <<run_vars, call>>

Call_parse_outline_arg ==
    /\ call.fn = "parse_outline_arg"
    /\ ret.status = "NotCalled"
    /\ ret' = parse_outline_arg(call.text)
    /\ UNCHANGED <<run_vars, call>>

NextFn ==
    \/ Call_remove_partial_transparency
    \/ Call_create_circular_kernel
    \/ Call_dilate_with_circular_kernel
    \/ Call_add_outline
    \/ Call_adjust_brightness
    \/ Call_add_padding
    \/ Call_parse_outline_arg

SpecFn == InitFn /\ [][NextFn]_vars

Returned(fn) == call.fn = fn /\ ret.status = "returned"

(***************************************************************************)
(* Spec: one run of the tool, main and process_image, a step per block.    *)
(***************************************************************************)
\* the outline strings tried: none, the empty string, well-formed ones
\* ("1px #000000", "2 rgb(255,0,0)") and malformed ones ("abc", "1px #12345")
OutlineArgs ==
    {None,
     Some(<<>>),
     Some(<<"1", "p", "x", " ", "#", "0", "0", "0", "0", "0", "0">>),
     Some(<<"2", " ", "r", "g", "b", "(", "2", "5", "5", ",", "0", ",", "0", ")">>),
     Some(<<"a", "b", "c">>),
     Some(<<"1", "p", "x", " ", "#", "1", "2", "3", "4", "5">>)}

ArgSets ==
    [remove_partial_transparency : BOOLEAN,
     opacity_threshold : {0, 128},
     outline : OutlineArgs,
     brightness : {None, Some(0), Some(-100), Some(50)},
     padding : {None, Some(0), Some(1), Some(2)}]

NoCall == Call("none", NoImage, NoMask, 0, NoColor)

Init ==
    /\ pc = "main"
    /\ args \in ArgSets
    /\ input_img \in InputImages
    /\ raised = None
    /\ img = NoImage
    /\ effects_applied = <<>>
    /\ stage_log = <<>>
    /\ saved = <<>>
    /\ exit_code = None
    /\ err_stream = <<>>
    /\ call = NoCall
    /\ ret = NotCalled

\* Python's truth value of args.outline: None and "" are false
Truthy(outline) == outline # None /\ outline[1] # <<>>

\* a plausible slip: an opacity threshold taken for an effect of its own
EffectRequested_threshold(a) ==
    \/ a.remove_partial_transparency
    \/ Truthy(a.outline)
    \/ a.brightness # None
    \/ a.padding # None
    \/ a.opacity_threshold > 0

\* line 363 negated: some effect flag was given
EffectRequested(a) ==
    \/ a.remove_partial_transparency
    \/ Truthy(a.outline)
    \/ a.brightness # None
    \/ a.padding # None

\* a plausible slip: brightness applied before the alpha normalization
StageAfter_swapped(stage) ==
    CASE stage = "open" -> "padding"
      [] stage = "padding" -> "brightness"
      [] stage = "brightness" -> "normalize"
      [] stage = "normalize" -> "outline"
      [] stage = "outline" -> "save"
      [] stage = "save" -> "return"

\* a plausible slip: the image saved before the outline block
StageAfter_save_early(stage) ==
    CASE stage = "open" -> "padding"
      [] stage = "padding" -> "normalize"
      [] stage = "normalize" -> "brightness"
      [] stage = "brightness" -> "save"
      [] stage = "save" -> "outline"
      [] stage = "outline" -> "return"

\* the order of the blocks of process_image, lines 292-329
StageAfter(stage) ==
    CASE stage = "open" -> "padding"
      [] stage = "padding" -> "normalize"
      [] stage = "normalize" -> "brightness"
      [] stage = "brightness" -> "outline"
      [] stage = "outline" -> "save"
      [] stage = "save" -> "return"

Logged(stage, before, after) ==
    Append(stage_log, [stage |-> stage, input |-> before, output |-> after])

\* lines 360-365: the command line is parsed; with no effect requested the
\* tool prints a hint and exits 0
main_parse ==
    /\ pc = "main"
    /\ IF EffectRequested(args)
          THEN pc' = "open" /\ UNCHANGED exit_code
          ELSE pc' = "exit" /\ exit_code' = Some(0)
    /\ UNCHANGED <<args, input_img, raised, img, effects_applied, stage_log,
                   saved, err_stream, call, ret>>

\* lines 292-296: the input is opened as RGBA, effects_applied = []
open_image ==
    /\ pc = "open"
    /\ img' = input_img
    /\ effects_applied' = <<>>
    /\ pc' = StageAfter("open")
    /\ UNCHANGED <<args, input_img, raised, stage_log, saved, exit_code,
                   err_stream, call, ret>>

\* lines 298-301
effect_padding ==
    /\ pc = "padding"
    /\ IF args.padding # None /\ args.padding[1] > 0
          THEN \E r \in add_padding(img, args.padding[1]) :
                 IF r.status = "ValueError"
                    THEN /\ raised' = Some("Padding is too large for image size")
                         /\ pc' = "except"
                         /\ UNCHANGED <<img, effects_applied, stage_log>>
                    ELSE /\ img' = r.value
                         /\ effects_applied' =
                              Append(effects_applied,
                                     <<"padding=", args.padding[1], "px">>)
                         /\ stage_log' = Logged("padding", img, r.value)
                         /\ pc' = StageAfter("padding")
                         /\ UNCHANGED raised
          ELSE /\ pc' = StageAfter("padding")
               /\ UNCHANGED <<raised, img, effects_applied, stage_log>>
    /\ UNCHANGED <<args, input_img, saved, exit_code, err_stream, call, ret>>

\* a plausible slip: the normalization run for a threshold without the flag
effect_normalize_threshold ==
    /\ pc = "normalize"
    /\ IF args.remove_partial_transparency \/ args.opacity_threshold > 0
          THEN LET out == remove_partial_transparency(img, args.opacity_threshold)
               IN /\ img' = out
                  /\ effects_applied' =
                       Append(effects_applied, <<"remove-partial-transparency">>)
                  /\ stage_log' = Logged("normalize", img, out)
          ELSE UNCHANGED <<img, effects_applied, stage_log>>
    /\ pc' = StageAfter("normalize")
    /\ UNCHANGED <<args, input_img, raised, saved, exit_code, err_stream,
                   call, ret>>

\* lines 303-309
effect_normalize ==
    /\ pc = "normalize"
    /\ IF args.remove_partial_transparency
          THEN LET out == remove_partial_transparency(img, args.opacity_threshold)
               IN /\ img' = out
                  /\ effects_applied' =
                       Append(effects_applied,
                              IF args.opacity_threshold > 0
                                 THEN <<"remove-partial-transparency(threshold=",
                                        args.opacity_threshold, ")">>
                                 ELSE <<"remove-partial-transparency">>)
                  /\ stage_log' = Logged("normalize", img, out)
          ELSE UNCHANGED <<img, effects_applied, stage_log>>
    /\ pc' = StageAfter("normalize")
    /\ UNCHANGED <<args, input_img, raised, saved, exit_code, err_stream,
                   call, ret>>

\* lines 311-314
effect_brightness ==
    /\ pc = "brightness"
    /\ IF args.brightness # None /\ args.brightness[1] # 0
          THEN LET out == adjust_brightness(img, args.brightness[1])
               IN /\ img' = out
                  /\ effects_applied' =
                       Append(effects_applied,
                              <<"brightness=", args.brightness[1]>>)
                  /\ stage_log' = Logged("brightness", img, out)
          ELSE UNCHANGED <<img, effects_applied, stage_log>>
    /\ pc' = StageAfter("brightness")
    /\ UNCHANGED <<args, input_img, raised, saved, exit_code, err_stream,
                   call, ret>>

\* lines 316-320: the outline string is parsed here, then the outline added
effect_outline ==
    /\ pc = "outline"
    /\ IF Truthy(args.outline)
          THEN LET parsed == parse_outline_arg(args.outline[1])
               IN IF parsed.status = "ValueError"
                     THEN /\ raised' = Some("Invalid outline")
                          /\ pc' = "except"
                          /\ UNCHANGED <<img, effects_applied, stage_log>>
                     ELSE LET out == add_outline(img, parsed.value.width_px,
                                                 parsed.value.color)
                          IN /\ out.status = "returned"
                             /\ img' = out.value
                             /\ effects_applied' =
                                  Append(effects_applied,
                                         <<"outline=", parsed.value.width_px,
                                           "px">>)
                             /\ stage_log' = Logged("outline", img, out.value)
                             /\ pc' = StageAfter("outline")
                             /\ UNCHANGED raised
          ELSE /\ pc' = StageAfter("outline")
               /\ UNCHANGED <<raised, img, effects_applied, stage_log>>
    /\ UNCHANGED <<args, input_img, saved, exit_code, err_stream, call, ret>>

\* line 323: img.save(output_path, 'PNG')
save_image ==
    /\ pc = "save"
    /\ saved' = Append(saved, img)
    /\ pc' = StageAfter("save")
    /\ UNCHANGED <<args, input_img, raised, img, effects_applied, stage_log,
                   exit_code, err_stream, call, ret>>

\* lines 329 and 376: process_image returns, main ends, the status is 0
main_return ==
    /\ pc = "return"
    /\ exit_code' = Some(0)
    /\ pc' = "exit"
    /\ UNCHANGED <<args, input_img, raised, img, effects_applied, stage_log,
                   saved, err_stream, call, ret>>

\* lines 377-379: the handler prints the error to stderr and exits 1
main_except ==
    /\ pc = "except"
    /\ err_stream' = Append(err_stream, <<"Error: ", raised[1]>>)
    /\ exit_code' = Some(1)
    /\ pc' = "exit"
    /\ UNCHANGED <<args, input_img, raised, img, effects_applied, stage_log,
                   saved, call, ret>>

Next ==
    \/ main_parse
    \/ open_image
    \/ effect_padding
    \/ effect_normalize
    \/ effect_brightness
    \/ effect_outline
    \/ save_image
    \/ main_return
    \/ main_except

Spec == Init /\ [][Next]_vars

(***************************************************************************)
(* Claims about a run of the tool, checked under Spec.                     *)
(***************************************************************************)
\* the place of a stage in the documented order
StageRank(stage) ==
    CASE stage = "padding" -> 1
      [] stage = "normalize" -> 2
      [] stage = "brightness" -> 3
      [] stage = "outline" -> 4

ExecutedStages == {stage_log[i].stage : i \in 1..Len(stage_log)}

\* the stages process_image is asked for
RequestedStages ==
    {st \in {"padding", "normalize", "brightness", "outline"} :
        \/ st = "padding" /\ args.padding # None /\ args.padding[1] > 0
        \/ st = "normalize" /\ args.remove_partial_transparency
        \/ st = "brightness" /\ args.brightness # None /\ args.brightness[1] # 0
        \/ st = "outline" /\ Truthy(args.outline)}

\* C1: the stages process_image executes run in the order padding, alpha
\* normalization, brightness, outline: each at most once, none before an
\* earlier-listed one, the first on the image as loaded and each next one
\* on the image the stage executed before it produced.
C1_FixedStageOrder ==
    /\ \A i, j \in 1..Len(stage_log) :
         i < j => StageRank(stage_log[i].stage) < StageRank(stage_log[j].stage)
    /\ Len(stage_log) >= 1 =>
         /\ stage_log[1].input = input_img
         /\ img = stage_log[Len(stage_log)].output
    /\ \A i \in 2..Len(stage_log) :
         stage_log[i].input = stage_log[i - 1].output

\* C1's case: a run that executed all four stages, each changing the image
C1_Witness ==
    /\ pc = "exit"
    /\ Len(stage_log) = 4
    /\ \A i \in 1..4 : stage_log[i].input # stage_log[i].output
    /\ saved = <<img>>

Exited(code) == pc = "exit" /\ exit_code = Some(code)

OutlineMalformed ==
    Truthy(args.outline) /\ parse_outline_arg(args.outline[1]).status = "ValueError"
PaddingRejected ==
    args.padding # None /\ args.padding[1] > 0
        /\ PaddingTooLarge(input_img, args.padding[1])

C3_NoStageBeforeOutlineError ==
    raised = Some("Invalid outline") =>
        /\ stage_log = <<>>
        /\ img = input_img

(***************************************************************************)
(* Claims about the effect functions, checked under SpecFn.                *)
(***************************************************************************)
IsSet(v) == v > 0

C5_Idempotent ==
    Returned("remove_partial_transparency") =>
        remove_partial_transparency(ret.value, call.n) = ret.value

\* the pixels a pass converts to a gray that the next pass converts again
Regrayed(p, threshold) == p[4] >= threshold /\ p[4] > 0 /\ p[4] < 255

\* C5 (amended): a second pass with the same threshold leaves every pixel
\* of the first pass's result alone except those whose input alpha a has
\* threshold <= a < 255 and a > 0: these are (a,a,a,255) after one pass and
\* (255,255,255,255) after two; a third pass changes nothing any more.
C5_StableAfterTwoPasses ==
    Returned("remove_partial_transparency") =>
        LET g == call.image
            once == ret.value
            twice == remove_partial_transparency(once, call.n)
        IN /\ \A c \in DOMAIN g.px :
                IF Regrayed(g.px[c], call.n)
                   THEN /\ once.px[c] = <<g.px[c][4], g.px[c][4], g.px[c][4], 255>>
                        /\ twice.px[c] = <<255, 255, 255, 255>>
                   ELSE twice.px[c] = once.px[c]
           /\ remove_partial_transparency(twice, call.n) = twice

\* C5's case: a pass that converted a pixel of alpha 200 and kept one of
\* alpha 64
C5_Witness ==
    /\ Returned("remove_partial_transparency")
    /\ call.n = 128
    /\ \E c \in DOMAIN call.image.px : call.image.px[c][4] = 200
    /\ \E c \in DOMAIN call.image.px : call.image.px[c][4] = 64
    /\ ret.value # call.image

\* the cell (x, y) of a kernel array
KernelCell(kernel, x, y) == kernel.a[<<y, x>>]

\* C6: for a binary mask m and a radius r > 0 the dilation has the
\* dimensions of m, and its cell (x,y) is set iff some kernel offset
\* (dx,dy) in 0..2r with kernel[dx,dy] set has (x+dx-r, y+dy-r) inside m
\* and set there: no wraparound, no growth.
C6_DilationCells ==
    (call.fn = "dilate_with_circular_kernel" /\ ret.status # "NotCalled"
        /\ call.n > 0) =>
        LET m == call.mask
            r == call.n
            kernel == create_circular_kernel(r).value
        IN /\ ret.status = "returned"
           /\ ret.value.width = m.width /\ ret.value.height = m.height
           /\ DOMAIN ret.value.px = Cells(m.width, m.height)
           /\ \A c \in Cells(m.width, m.height) :
                IsSet(ret.value.px[c]) <=>
                    \E dx \in 0..(2 * r), dy \in 0..(2 * r) :
                        /\ IsSet(KernelCell(kernel, dx, dy))
                        /\ c[1] + dx - r \in 0..(m.width - 1)
                        /\ c[2] + dy - r \in 0..(m.height - 1)
                        /\ IsSet(m.px[<<c[1] + dx - r, c[2] + dy - r>>])

\* C6's case: a 3x1 mask set at its left end only, radius 1: the middle
\* cell is reached, the right end is not (wrapping around would set it)
C6_Witness ==
    /\ Returned("dilate_with_circular_kernel")
    /\ call.n = 1
    /\ call.mask.width = 3 /\ call.mask.height = 1
    /\ call.mask.px = [c \in Cells(3, 1) |-> IF c[1] = 0 THEN 255 ELSE 0]
    /\ ret.value.px[<<1, 0>>] = 255
    /\ ret.value.px[<<2, 0>>] = 0

\* C7: the dilation is monotone in the radius: for 0 <= r1 <= r2 every
\* cell set in the dilation by r1 is set in the dilation by r2.
C7_DilationMonotone ==
    (call.fn = "dilate_with_circular_kernel" /\ ret.status # "NotCalled"
        /\ call.n >= 0) =>
        /\ ret.status = "returned"
        /\ \A r1 \in 0..call.n :
             LET smaller == dilate_with_circular_kernel(call.mask, r1)
             IN /\ smaller.status = "returned"
                /\ \A c \in DOMAIN call.mask.px :
                     IsSet(smaller.value.px[c]) => IsSet(ret.value.px[c])

\* C7's case: radius 2 sets a cell that radius 1 leaves unset, and every
\* cell radius 1 sets
C7_Witness ==
    /\ Returned("dilate_with_circular_kernel")
    /\ call.n = 2
    /\ LET smaller == dilate_with_circular_kernel(call.mask, 1).value
       IN /\ \E c \in DOMAIN call.mask.px :
               ~IsSet(smaller.px[c]) /\ IsSet(ret.value.px[c])
          /\ \E c \in DOMAIN call.mask.px :
               IsSet(smaller.px[c]) /\ ~IsSet(call.mask.px[c])

\* C8: with a radius <= 0 (zero or negative) the dilation returns a mask
\* equal cell for cell to its argument.
C8_DilationNoOp ==
    (call.fn = "dilate_with_circular_kernel" /\ ret.status # "NotCalled"
        /\ call.n <= 0) =>
        /\ ret.status = "returned"
        /\ ret.value.width = call.mask.width
        /\ ret.value.height = call.mask.height
        /\ \A c \in Cells(call.mask.width, call.mask.height) :
             ret.value.px[c] = call.mask.px[c]

\* C8's case: a negative radius on a mask with set and unset cells
C8_Witness ==
    /\ Returned("dilate_with_circular_kernel")
    /\ call.n = -1
    /\ \E c \in DOMAIN call.mask.px : call.mask.px[c] = 255
    /\ \E c \in DOMAIN call.mask.px : call.mask.px[c] = 0
    /\ ret.value = call.mask

\* C9: for r >= 0 the kernel is a (2r+1) x (2r+1) grid whose cell (x,y)
\* is set iff (x-r)^2 + (y-r)^2 <= r^2; for r = 0 it is one set cell.
C9_KernelCircle ==
    (call.fn = "create_circular_kernel" /\ ret.status # "NotCalled"
        /\ call.n >= 0) =>
        LET r == call.n
        IN /\ ret.status = "returned"
           /\ ret.value.rows = 2 * r + 1 /\ ret.value.cols = 2 * r + 1
           /\ DOMAIN ret.value.a = (0..(2 * r)) \X (0..(2 * r))
           /\ \A x \in 0..(2 * r), y \in 0..(2 * r) :
                /\ KernelCell(ret.value, x, y) \in {0, 1}
                /\ IsSet(KernelCell(ret.value, x, y)) <=>
                     (x - r) * (x - r) + (y - r) * (y - r) <= r * r
           /\ r = 0 => ret.value.a = [c \in {<<0, 0>>} |-> 1]

\* C9's case: the radius-2 kernel, whose rim cell (0,2) is set (distance
\* exactly 2) and whose cells (0,1) and (0,0) are not
C9_Witness ==
    /\ Returned("create_circular_kernel")
    /\ call.n = 2
    /\ KernelCell(ret.value, 0, 2) = 1
    /\ KernelCell(ret.value, 1, 1) = 1
    /\ KernelCell(ret.value, 0, 1) = 0
    /\ KernelCell(ret.value, 0, 0) = 0

\* C10: for r >= 0 the kernel has side 2r+1 and is symmetric under the
\* half turn about its centre: cell (x,y) is set iff cell (2r-x, 2r-y) is.
C10_KernelSymmetric ==
    (call.fn = "create_circular_kernel" /\ ret.status # "NotCalled"
        /\ call.n >= 0) =>
        LET r == call.n
        IN /\ ret.status = "returned"
           /\ ret.value.rows = 2 * r + 1 /\ ret.value.cols = 2 * r + 1
           /\ \A x \in 0..(2 * r), y \in 0..(2 * r) :
                IsSet(KernelCell(ret.value, x, y)) <=>
                    IsSet(KernelCell(ret.value, 2 * r - x, 2 * r - y))

\* C10's case: the radius-1 kernel, a plus sign: opposite arms set,
\* opposite corners unset
C10_Witness ==
    /\ Returned("create_circular_kernel")
    /\ call.n = 1
    /\ ret.value.rows = 3
    /\ KernelCell(ret.value, 1, 0) = 1 /\ KernelCell(ret.value, 1, 2) = 1
    /\ KernelCell(ret.value, 0, 0) = 0 /\ KernelCell(ret.value, 2, 2) = 0

(***************************************************************************)
(* C11-C13: add_outline                                                    *)
(***************************************************************************)
\* the call made is add_outline and it returned
Outlined == call.fn = "add_outline" /\ ret.status = "returned"

\* C11: for every grid, every outline colour and every outline width > 0,
\* every pixel whose input alpha is > 0 has in the output exactly its input
\* RGBA value: only cells fully transparent in the input can differ.
C11_OutlineContainment ==
    (Outlined /\ call.n > 0) =>
        \A c \in DOMAIN call.image.px :
            call.image.px[c][4] > 0 => ret.value.px[c] = call.image.px[c]

\* C11's case: an outline of width > 0 was drawn (a cell changed) around a
\* grid that holds a translucent pixel, which kept its value
C11_Witness ==
    /\ Outlined
    /\ call.n > 0
    /\ \E c \in DOMAIN call.image.px :
          /\ call.image.px[c] = <<100, 150, 200, 64>>
          /\ ret.value.px[c] = <<100, 150, 200, 64>>
    /\ \E c \in DOMAIN call.image.px : ret.value.px[c] # call.image.px[c]

\* C12 as stated: with width_px = 0 the result equals the input pixel for
\* pixel in all four channels, pixels of alpha 0 included.
C12_WidthZeroIdentity ==
    (Outlined /\ call.n = 0) => ret.value = call.image

\* C12 (amended): with width_px = 0 no cell takes the outline colour; every
\* pixel of alpha > 0 keeps its four channels, and every pixel of alpha 0
\* comes out as (0,0,0,0), whatever its colour channels were.
C12_WidthZeroVisible ==
    (Outlined /\ call.n = 0) =>
        /\ ret.value.width = call.image.width
        /\ ret.value.height = call.image.height
        /\ \A c \in DOMAIN call.image.px :
              ret.value.px[c] = IF call.image.px[c][4] > 0
                                   THEN call.image.px[c] ELSE Transparent

\* C12's case: width 0 on a grid with a visible pixel and a fully
\* transparent pixel that carries colour, which came out as (0,0,0,0)
C12_Witness ==
    /\ Outlined
    /\ call.n = 0
    /\ \E c, d \in DOMAIN call.image.px :
          /\ call.image.px[c][4] > 0
          /\ call.image.px[d] = <<100, 150, 200, 0>>
          /\ ret.value.px[d] = Transparent

\* the dilation of the alpha > 0 mask by the circular kernel of radius w:
\* the cells within distance w of a cell of alpha > 0
InDilation(image, c, w) ==
    \E d \in DOMAIN image.px :
        /\ image.px[d][4] > 0
        /\ (d[1] - c[1]) * (d[1] - c[1]) + (d[2] - c[2]) * (d[2] - c[2]) <= w * w

\* C13: with an opaque colour, a cell fully transparent in the input holds
\* exactly that colour when it lies in the dilation of the alpha > 0 mask by
\* the circular kernel of radius width_px, and is fully transparent when it
\* does not; the output has the input's dimensions.
C13_OutlineCells ==
    (Outlined /\ call.color[4] = 255) =>
        /\ ret.value.width = call.image.width
        /\ ret.value.height = call.image.height
        /\ \A c \in DOMAIN call.image.px :
              call.image.px[c][4] = 0 =>
                  IF InDilation(call.image, c, call.n)
                     THEN ret.value.px[c] = call.color
                     ELSE ret.value.px[c][4] = 0

\* C13's case: the opaque white pixel in the middle of a transparent 3x3
\* grid, outlined "1px #000000": the four cells next to it are black, the
\* corners stay transparent and the white pixel is unchanged
C13_Witness ==
    /\ Outlined
    /\ call.image = DotImage(3, 3)
    /\ call.n = 1
    /\ call.color = <<0, 0, 0, 255>>
    /\ \A c \in {<<1, 0>>, <<0, 1>>, <<2, 1>>, <<1, 2>>} :
          ret.value.px[c] = <<0, 0, 0, 255>>
    /\ \A c \in {<<0, 0>>, <<2, 0>>, <<0, 2>>, <<2, 2>>} :
          ret.value.px[c] = Transparent
    /\ ret.value.px[<<1, 1>>] = <<255, 255, 255, 255>>

(***************************************************************************)
(* C14-C17: adjust_brightness                                              *)
(***************************************************************************)
\* the call made is adjust_brightness and it returned
Brightened == call.fn = "adjust_brightness" /\ ret.status = "returned"

\* the integers nearest to c * (100 + delta) / 100 (two of them on a tie),
\* clamped to 0..255
NearestClamped(c, delta) ==
    LET num == c * (100 + delta)
        down == num \div 100
    IN {Clip8(v) : v \in {w \in {down, down + 1} :
                             /\ 2 * (num - 100 * w) <= 100
                             /\ 2 * (100 * w - num) <= 100}}

\* C14 as stated: for every integer delta in -100..100 and every channel
\* value c in 0..255, each of R, G and B comes out as c*(100+delta)/100
\* rounded to the nearest integer and clamped to 0..255.
C14_RoundedToNearest ==
    (Brightened /\ call.n \in (-100)..100) =>
        \A c \in DOMAIN call.image.px : \A i \in 1..3 :
            ret.value.px[c][i] \in NearestClamped(call.image.px[c][i], call.n)

\* C14 (amended): for every integer delta in -100..100 and every channel
\* value c in 0..255, each of R, G and B comes out as c*(100+delta)/100 cut
\* down to an integer (not rounded to the nearest) and clamped to 0..255; only
\* where c*(100+delta)/100 is itself a whole number N may the result be N-1
\* (the product is formed in single precision).
C14_Truncated ==
    (Brightened /\ call.n \in (-100)..100) =>
        \A c \in DOMAIN call.image.px : \A i \in 1..3 :
            LET num == call.image.px[c][i] * (100 + call.n)
                out == ret.value.px[c][i]
            IN \/ out = Clip8(num \div 100)
               \/ /\ num % 100 = 0
                  /\ num \div 100 \in 1..255
                  /\ out = num \div 100 - 1

\* C14's case: delta = 75 on the pixel (1,254,129): 1.75 comes out as 1,
\* 444.5 as 255 and 225.75 as 225
C14_Witness ==
    /\ Brightened
    /\ call.n = 75
    /\ \E c \in DOMAIN call.image.px :
          /\ call.image.px[c] = <<1, 254, 129, 254>>
          /\ ret.value.px[c] = <<1, 255, 225, 254>>

\* C15: adjust_brightness never changes a pixel's alpha, and with
\* delta = -100 every R, G and B of the result is 0.
C15_AlphaKeptBlackAtMinus100 ==
    Brightened =>
        \A c \in DOMAIN call.image.px :
            /\ ret.value.px[c][4] = call.image.px[c][4]
            /\ call.n = -100 =>
                  \A i \in 1..3 : ret.value.px[c][i] = 0

\* C15's case: delta = -100 on a coloured translucent pixel, which came out
\* black with its alpha
C15_Witness ==
    /\ Brightened
    /\ call.n = -100
    /\ \E c \in DOMAIN call.image.px :
          /\ call.image.px[c] = <<100, 150, 200, 64>>
          /\ ret.value.px[c] = <<0, 0, 0, 64>>

\* C16: adjust_brightness(grid, 0) returns the input grid itself, by the
\* short-circuit taken before any channel arithmetic; the result is
\* pixel-for-pixel the input.
C16_ZeroReturnsInput ==
    (Brightened /\ call.n = 0) =>
        /\ ret.same_object
        /\ ret.value = call.image

\* C16's case: delta = 0 on a grid with coloured pixels
C16_Witness ==
    /\ Brightened
    /\ call.n = 0
    /\ ret.same_object
    /\ \E c \in DOMAIN call.image.px : call.image.px[c] = <<100, 150, 200, 200>>

\* C17: a delta outside -100..100 is clamped, not rejected: the result for
\* d > 100 is the result for 100, the result for d < -100 is the result for
\* -100, and no error is raised.
C17_BrightnessClamped ==
    (call.fn = "adjust_brightness" /\ ret.status # "NotCalled") =>
        /\ ret.status = "returned"
        /\ call.n > 100 => ret.value = adjust_brightness(call.image, 100)
        /\ call.n < -100 => ret.value = adjust_brightness(call.image, -100)

\* C17's case: delta = 150 doubled the channel 100, as delta = 100 does
C17_Witness ==
    /\ Brightened
    /\ call.n = 150
    /\ \E c \in DOMAIN call.image.px :
          /\ call.image.px[c][1] = 100
          /\ ret.value.px[c][1] = 200

(***************************************************************************)
(* C18: remove_partial_transparency with a threshold outside 0..255        *)
(***************************************************************************)
\* C18: an opacity threshold outside 0..255 is clamped, not rejected: the
\* result for t > 255 is the result for 255, the result for t < 0 is the
\* result for 0, and no error is raised.
C18_ThresholdClamped ==
    (call.fn = "remove_partial_transparency" /\ ret.status # "NotCalled") =>
        /\ ret.status = "returned"
        /\ call.n > 255 =>
              ret.value = remove_partial_transparency(call.image, 255)
        /\ call.n < 0 =>
              ret.value = remove_partial_transparency(call.image, 0)

(***************************************************************************)
(* C19-C20: add_padding                                                    *)
(***************************************************************************)
\* the call made is add_padding and it is over
Padded == call.fn = "add_padding" /\ ret.status # "NotCalled"

\* C19: for a width x height grid and a padding p >= 0, add_padding fails
\* with the padding error exactly when 2p >= width or 2p >= height; in every
\* other case it returns a grid and raises nothing.
C19_PaddingErrorIff ==
    (Padded /\ call.n >= 0) =>
        IF 2 * call.n >= call.image.width \/ 2 * call.n >= call.image.height
           THEN ret.status = "ValueError"
           ELSE ret.status = "returned"

\* C19's case: the boundary 2p = width, rejected
C19_Witness ==
    /\ Padded
    /\ call.image.width = 2
    /\ call.image.height = 3
    /\ call.n = 1
    /\ ret.status = "ValueError"

\* C20: for a valid p > 0 the result has the input's width and height, every
\* cell outside the rectangle [p, width-p) x [p, height-p) is (0,0,0,0), and
\* a resampled content of size (width-2p) x (height-2p) fills exactly that
\* rectangle; p = 0 gives the input unchanged.
C20_PaddedLayout ==
    (Padded /\ ret.status = "returned" /\ call.n >= 0) =>
        LET p == call.n
            w == call.image.width
            h == call.image.height
            out == ret.value
            content == [width |-> w - 2 * p, height |-> h - 2 * p,
                        px |-> [c \in Cells(w - 2 * p, h - 2 * p) |->
                                  out.px[<<c[1] + p, c[2] + p>>]]]
        IN IF p = 0 THEN out = call.image
           ELSE /\ out.width = w
                /\ out.height = h
                /\ DOMAIN out.px = Cells(w, h)
                /\ \A c \in Cells(w, h) :
                      (c[1] \notin p..(w - p - 1) \/ c[2] \notin p..(h - p - 1))
                          => out.px[c] = Transparent
                /\ content \in Resized(call.image, w - 2 * p, h - 2 * p)

\* C20's case: a 3x3 grid padded by 1: the one-cell content sits in the
\* middle with a transparent border around it
C20_Witness ==
    /\ Padded
    /\ ret.status = "returned"
    /\ call.n = 1
    /\ call.image.width = 3
    /\ call.image.height = 3
    /\ ret.value.px[<<1, 1>>] = <<100, 150, 200, 200>>
    /\ \A c \in Cells(3, 3) \ {<<1, 1>>} : ret.value.px[c] = Transparent

(***************************************************************************)
(* C21-C22: parse_outline_arg                                              *)
(***************************************************************************)
\* the call made is parse_outline_arg and it is over
Parsed == call.fn = "parse_outline_arg" /\ ret.status # "NotCalled"

\* C21: parse_outline_arg accepts every string WIDTH[px] COLOR with blanks
\* between width and colour and returns (width, color): #RRGGBB gives
\* (RR,GG,BB,255) in either case of the hex digits, #RGB the colour of the
\* doubled digits, rgb(r,g,b) gives (r,g,b,255), rgba(r,g,b,a) gives
\* (r,g,b,a); the width is the decimal WIDTH, with or without "px".
C21_WellFormedAccepted ==
    (Parsed /\ call.wellformed) =>
        ret = Return([width_px |-> call.n, color |-> call.color])

\* C21's case: "14px #aCf", a short form in mixed case, parsed as (aa,cc,ff)
C21_Witness ==
    /\ Parsed
    /\ call.text = <<"1", "4", "p", "x", " ", "#", "a", "C", "f">>
    /\ ret = Return([width_px |-> 14, color |-> <<170, 204, 255, 255>>])

\* C22: parse_outline_arg rejects every string that is not exactly
\* WIDTH[px], blanks, and one of #RGB, #RRGGBB, rgb(r,g,b), rgba(r,g,b,a)
\* with channels in 0..255: it raises the parse error and returns nothing.
C22_MalformedRejected ==
    (Parsed /\ ~call.wellformed) => ret.status = "ValueError"

(***************************************************************************)
(* C23-C25: a run of the tool, checked under Spec                          *)
(***************************************************************************)
\* one of the four effect flags is on the command line
FlagSupplied ==
    \/ args.remove_partial_transparency
    \/ args.outline # None
    \/ args.brightness # None
    \/ args.padding # None

NothingAsked ==
    /\ ~args.remove_partial_transparency
    /\ args.outline = None \/ args.outline = Some(<<>>)
    /\ args.brightness = None
    /\ args.padding = None

SameSize(a, b) ==
    /\ a.width = b.width
    /\ a.height = b.height
    /\ DOMAIN a.px = Cells(b.width, b.height)

\* C24: whatever stages run, the grid keeps the width and height of the
\* loaded input: every stage yields a grid of the size of the one it was
\* given, the saved image has the input's size, and the binary mask, the
\* dilated mask and the outline mask built inside add_outline have the size
\* of the grid they are derived from.
C24_DimensionInvariant ==
    /\ img # NoImage => SameSize(img, input_img)
    /\ \A i \in 1..Len(saved) : SameSize(saved[i], input_img)
    /\ \A i \in 1..Len(stage_log) :
          /\ SameSize(stage_log[i].output, stage_log[i].input)
          /\ stage_log[i].stage = "outline" =>
                LET g == stage_log[i].input
                    parsed == parse_outline_arg(args.outline[1])
                    binary_mask == BinaryMask(g)
                    dilated == dilate_with_circular_kernel(
                                   binary_mask, parsed.value.width_px)
                IN /\ dilated.status = "returned"
                   /\ SameSize(binary_mask, g)
                   /\ SameSize(dilated.value, g)
                   /\ SameSize(OutlineMask(dilated.value, binary_mask), g)

\* C24's case: normalization, brightness and outline ran on a 2x3 input,
\* each changing pixels, and the saved image is 2x3
C24_Witness ==
    /\ Exited(0)
    /\ input_img.width = 2
    /\ input_img.height = 3
    /\ Len(stage_log) = 3
    /\ stage_log[3].stage = "outline"
    /\ \A i \in 1..3 : stage_log[i].input # stage_log[i].output
    /\ Len(saved) = 1
    /\ saved[1].width = 2
    /\ saved[1].height = 3

\* C25: a stage that is not requested is never executed: padding runs only
\* for a padding > 0, normalization only with --remove-partial-transparency
\* (a threshold without it changes nothing), brightness only for a non-zero
\* brightness, outline only for an outline string; when no stage runs the
\* saved image is pixel for pixel the loaded image.
C25_UnrequestedStagesSkipped ==
    /\ \A i \in 1..Len(stage_log) :
          LET st == stage_log[i].stage
          IN /\ st = "padding" => args.padding # None /\ args.padding[1] > 0
             /\ st = "normalize" => args.remove_partial_transparency
             /\ st = "brightness" =>
                   args.brightness # None /\ args.brightness[1] # 0
             /\ st = "outline" =>
                   args.outline # None /\ args.outline[1] # <<>>
    /\ Len(effects_applied) = Len(stage_log)
    /\ (stage_log = <<>> /\ img # NoImage) => img = input_img
    /\ (stage_log = <<>> /\ saved # <<>>) => saved = <<input_img>>

\* C25's case: --brightness 0 --padding 0 --opacity-threshold 128 on an
\* image with a translucent pixel: no stage ran, the input was saved as is
C25_Witness ==
    /\ Exited(0)
    /\ args.brightness = Some(0)
    /\ args.padding = Some(0)
    /\ args.opacity_threshold = 128
    /\ ~args.remove_partial_transparency
    /\ \E c \in DOMAIN input_img.px : input_img.px[c] = <<100, 150, 200, 200>>
    /\ stage_log = <<>>
    /\ saved = <<input_img>>

(***************************************************************************)
(* C26: the order in which the loops visit the cells                       *)
(***************************************************************************)
\* the visiting orders tried on a set of cells: every permutation for up to
\* MaxOrderCells cells; for any number of cells the given (row by row)
\* order reversed and the order sorted the other way round (column by
\* column for the normalizer's (x, y), and the reverse of that)
Reversed(seq) == [i \in 1..Len(seq) |-> seq[Len(seq) + 1 - i]]

SwappedMajor(seq) ==
    LET n == Len(seq)
        before(a, b) == a[1] < b[1] \/ (a[1] = b[1] /\ a[2] < b[2])
    IN [i \in 1..n |->
          CHOOSE c \in Range(seq) :
              Cardinality({d \in Range(seq) : before(d, c)}) = i - 1]

Orders(seq) ==
    {Reversed(seq), SwappedMajor(seq), Reversed(SwappedMajor(seq))}
    \cup (IF Len(seq) <= MaxOrderCells
             THEN {o \in [1..Len(seq) -> Range(seq)] :
                     \A i, j \in 1..Len(seq) : i # j => o[i] # o[j]}
             ELSE {})

\* the cells of a w x h grid as the loops of lines 52-53 visit them
RowByRow(w, h) == [i \in 1..(w * h) |-> <<(i - 1) % w, (i - 1) \div w>>]

\* the normalizer's loop body applied to the cells in the given order
RECURSIVE rpt_in_order(_, _, _, _)
rpt_in_order(pixels, order, threshold, i) ==
    IF i > Len(order) THEN pixels
    ELSE rpt_in_order(VisitPixel(pixels, order[i], threshold), order,
                      threshold, i + 1)

\* the dilation's loop body applied to the cells (y, x) in the given order
RECURSIVE dilate_loop(_, _, _, _, _)
dilate_loop(output, padded, kernel, order, i) ==
    IF i > Len(order) THEN output
    ELSE dilate_loop(DilateAt(output, padded, kernel, order[i][1], order[i][2]),
                     padded, kernel, order, i + 1)

dilate_in_order(mask, radius, order) ==
    LET mask_array == ToArray(mask)
        output == dilate_loop([c \in DOMAIN mask_array.a |-> 0],
                              Pad(mask_array, radius),
                              create_circular_kernel(radius).value, order, 1)
    IN FromArray([rows |-> mask_array.rows, cols |-> mask_array.cols,
                  a |-> output])

\* C26: the results of the alpha normalization and of the dilation do not
\* depend on the order in which the cells are visited: the loop body applied
\* to the cells in any other order gives the grid the row-by-row loop gives.
C26_OrderIndependent ==
    /\ Returned("remove_partial_transparency") =>
          \A order \in Orders(RowByRow(call.image.width, call.image.height)) :
              rpt_in_order(call.image.px, order, call.n, 1) = ret.value.px
    /\ (Returned("dilate_with_circular_kernel") /\ call.n > 0) =>
          \A order \in Orders(RowByRow(call.mask.height, call.mask.width)) :
              dilate_in_order(call.mask, call.n, order) = ret.value

\* C26's case: a 3x1 grid all of whose pixels were converted, which every
\* one of the six visiting orders converts alike
C26_Witness ==
    /\ Returned("remove_partial_transparency")
    /\ call.image.width = 3
    /\ call.image.height = 1
    /\ \A c \in DOMAIN call.image.px : ret.value.px[c] # call.image.px[c]
    /\ Cardinality(Orders(RowByRow(3, 1))) = 6
    /\ \A order \in Orders(RowByRow(3, 1)) :
          rpt_in_order(call.image.px, order, call.n, 1) = ret.value.px

(***************************************************************************)
(* C27: remove_partial_transparency and the caller's grid                  *)
(***************************************************************************)
\* C27: remove_partial_transparency returns a new grid of the same size and
\* leaves the grid object passed in unmodified: after the call the caller's
\* grid still holds its original value in every pixel.
C27_ArgumentUnmodified ==
    Returned("remove_partial_transparency") =>
        /\ ~ret.same_object
        /\ ret.argument = call.image
        /\ SameSize(ret.value, call.image)

====
